---------------------------- MODULE Spec2Model ----------------------------
(***************************************************************************)
(* A model of Text-Editor/TextEditor.py: the spelling corrector            *)
(* (correct_spelling), the adjective paraphraser (paraphrase_sentence) and *)
(* the Tk callbacks that move text between the three text widgets and the  *)
(* two listboxes.                                                          *)
(*                                                                         *)
(* A Python str is a sequence of one-character strings.  The external      *)
(* collaborators (the spelling engine, WordNet, the part-of-speech tagger) *)
(* are state chosen in the initial state or inputs chosen per call.        *)
(***************************************************************************)
EXTENDS Naturals, Sequences, FiniteSets

VARIABLES
    original_text_widget,   \* contents of the 'Original Text' widget
    corrected_text_widget,  \* contents of the 'Corrected Text' widget
    paraphrase_text_widget, \* contents of the 'Paraphrased Text' widget
    paraphrase_changed,     \* per character: does it carry the "changed" tag
    synonym_listbox,        \* entries of the 'Synonyms' listbox
    spelling_listbox,       \* entries of the 'Alternative Spellings' listbox
    sel,                    \* the "sel" tag range of the corrected widget
    spell,                  \* the spelling engine: word -> correction
    wordnet,                \* the lexical database: a set of synsets
    lastOp,                 \* the callback that ran last, and how it ended
    words,                  \* paraphrase_sentence: the tokens of the sentence
    pos_tags,               \* paraphrase_sentence: the tag of each token
    paraphrased_words,      \* paraphrase_sentence: the list it built
    steps                   \* the events the main loop has dispatched

vars == <<original_text_widget, corrected_text_widget, paraphrase_text_widget,
          paraphrase_changed, synonym_listbox, spelling_listbox, sel, spell,
          wordnet, lastOp, words, pos_tags, paraphrased_words, steps>>

---------------------------------------------------------------------------
(* Bounds of the model.                                                    *)

\* longest text given to correct_spelling in SpecCorrect
MaxLen == 4
\* longest text typed or pasted into the original widget in Spec
MaxTyped == 2
\* most tokens of a sentence in SpecParaphrase
MaxTokens == 3
\* most events root.mainloop() dispatches in a run of Spec
MaxSteps == 6

---------------------------------------------------------------------------
(* Characters and str methods.                                             *)

LowerChars == {"a", "b", "e", "n", "o"}
UpperChars == {"A", "B", "E", "N", "O"}

ToUpper(c) ==
    CASE c = "a" -> "A" [] c = "b" -> "B" [] c = "e" -> "E"
      [] c = "n" -> "N" [] c = "o" -> "O" [] OTHER -> c

ToLower(c) ==
    CASE c = "A" -> "a" [] c = "B" -> "b" [] c = "E" -> "e"
      [] c = "N" -> "n" [] c = "O" -> "o" [] OTHER -> c

\* str.isupper() of one character
IsUpper(c) == c \in UpperChars

\* the regex class \w
WordChars == LowerChars \cup UpperChars

IsWordChar(c) == c \in WordChars

\* the regex class [!.,;?] of correct_spelling
PunctChars == {"!", ".", ",", ";", "?"}

\* whitespace, as str.split() and the regex class \s see it
SpaceChars == {" ", "\n"}

IsSpace(c) == c \in SpaceChars

\* every character of the model; "-" stands for the characters that are
\* neither \w, nor one of [!.,;?], nor whitespace
AllChars == WordChars \cup PunctChars \cup SpaceChars \cup {"-"}

\* str.lower()
Lower(s) == [i \in 1..Len(s) |-> ToLower(s[i])]

\* str.capitalize(): the first character upper-cased, all others lower-cased
Capitalize(s) == [i \in 1..Len(s) |-> IF i = 1 THEN ToUpper(s[i]) ELSE ToLower(s[i])]

\* the index of the first character at or after i that is not in class, or
\* Len(s)+1: the end of a greedy match of class*
RECURSIVE RunEnd(_, _, _)
RunEnd(s, i, class) ==
    IF i > Len(s) \/ s[i] \notin class THEN i ELSE RunEnd(s, i + 1, class)

\* str.split(): the maximal runs of non-whitespace, in order
RECURSIVE SplitFrom(_, _)
SplitFrom(s, i) ==
    IF i > Len(s) THEN <<>>
    ELSE IF IsSpace(s[i]) THEN SplitFrom(s, i + 1)
    ELSE LET j == RunEnd(s, i, AllChars \ SpaceChars)
         IN  <<SubSeq(s, i, j - 1)>> \o SplitFrom(s, j)

Split(s) == SplitFrom(s, 1)

\* ' '.join(list)
RECURSIVE Join(_)
Join(list) ==
    IF list = <<>> THEN <<>>
    ELSE IF Len(list) = 1 THEN list[1]
    ELSE list[1] \o <<" ">> \o Join(Tail(list))

---------------------------------------------------------------------------
(* The spelling engine.                                                    *)

\* spell.correction(word) returning None
NoCorrection == <<>>

\* spell.correction(word)
Correction(word) ==
    IF word \in DOMAIN spell THEN spell[word] ELSE NoCorrection

\* f'{corrected_word}': None is formatted as the text None
Format(corrected_word) ==
    IF corrected_word = NoCorrection THEN <<"N", "o", "n", "e">> ELSE corrected_word

---------------------------------------------------------------------------
(* correct_spelling.                                                       *)

\* re.findall(r'([!.,;?]*)(\w+)([!.,;?]*)', segment), scanning from index i
RECURSIVE FindAllFrom(_, _)
FindAllFrom(segment, i) ==
    IF i > Len(segment) THEN <<>>
    ELSE LET j == RunEnd(segment, i, PunctChars)
         IN  IF j <= Len(segment) /\ IsWordChar(segment[j])
             THEN LET k == RunEnd(segment, j, WordChars)
                      m == RunEnd(segment, k, PunctChars)
                  IN  <<[pre_punct  |-> SubSeq(segment, i, j - 1),
                         word       |-> SubSeq(segment, j, k - 1),
                         post_punct |-> SubSeq(segment, k, m - 1)]>>
                      \o FindAllFrom(segment, m)
             ELSE FindAllFrom(segment, i + 1)

FindAll(segment) == FindAllFrom(segment, 1)

\* the (pre_punct, word, post_punct) triples of a text, in the order the two
\* nested loops of correct_spelling visit them
RECURSIVE MatchesOf(_)
MatchesOf(segments) ==
    IF segments = <<>> THEN <<>>
    ELSE FindAll(Head(segments)) \o MatchesOf(Tail(segments))

WordsWithPunct(text) == MatchesOf(Split(text))

\* corrected_word.capitalize() is called when word[0].isupper()
NeedsCapital(word) == IsUpper(word[1])

\* corrected_word.capitalize() on None is an AttributeError
CorrectionRaises(m) == NeedsCapital(m.word) /\ Correction(m.word) = NoCorrection

\* the token the loop body appends for one triple
CorrectedToken(m) ==
    LET corrected_word == IF NeedsCapital(m.word)
                          THEN Capitalize(Correction(m.word))
                          ELSE Correction(m.word)
    IN  m.pre_punct \o Format(corrected_word) \o m.post_punct

\* correct_spelling(text): raised, or the joined tokens
correct_spelling(text) ==
    LET ms == WordsWithPunct(text)
    IN  IF \E i \in 1..Len(ms) : CorrectionRaises(ms[i])
        THEN [raised |-> TRUE, value |-> <<>>]
        ELSE [raised |-> FALSE,
              value  |-> Join([i \in 1..Len(ms) |-> CorrectedToken(ms[i])])]

---------------------------------------------------------------------------
(* WordNet and paraphrase_sentence.                                        *)

\* wordnet.synsets(word, pos): the synsets filed under the word, which WordNet
\* looks up in lower case; pos "" stands for no pos argument
Synsets(word, pos) ==
    {syn \in wordnet : Lower(word) \in syn.lemmas /\ (pos = "" \/ syn.pos = pos)}

\* the two nested loops that add every lemma name of every synset to a set
LemmaNames(word, pos) == UNION {syn.lemmas : syn \in Synsets(word, pos)}

\* a tag test that also takes nouns for adjectives
IsAdjectiveMutant(pos) == pos \in {"JJ", "NN"}

\* pos == 'JJ'
IsAdjective(pos) == pos = "JJ"

\* a test that lets a set holding only the word itself through
HasChoiceMutant(synonyms) == Cardinality(synonyms) > 0

\* len(synonyms) > 1
HasChoice(synonyms) == Cardinality(synonyms) > 1

\* what the loop body may append for one (word, pos): random.choice draws any
\* element of list(synonyms - {word}); the empty set is random.choice raising
\* IndexError on an empty list
WordOutcomes(word, pos) ==
    IF IsAdjective(pos)
    THEN LET synonyms == LemmaNames(word, "a")
         IN  IF HasChoice(synonyms) THEN synonyms \ {word} ELSE {word}
    ELSE {word}

\* every list paraphrased_words the loop over pos_tags can build from token i
\* on; empty when some random.choice raises
RECURSIVE ParaphrasedFrom(_, _, _)
ParaphrasedFrom(ws, tags, i) ==
    IF i > Len(ws) THEN {<<>>}
    ELSE {<<w>> \o rest : w \in WordOutcomes(ws[i], tags[i]),
                          rest \in ParaphrasedFrom(ws, tags, i + 1)}

ParaphrasedWordsSet(ws, tags) == ParaphrasedFrom(ws, tags, 1)

\* the part-of-speech tags pos_tag may give: adjective, noun, punctuation
PosTags == {"JJ", "NN", "."}

\* the marks word_tokenize always splits off as tokens of their own
TokenMarks == {"!", "?", ";"}

\* word_tokenize of one whitespace-free segment, from index i
RECURSIVE TokensFrom(_, _)
TokensFrom(segment, i) ==
    IF i > Len(segment) THEN <<>>
    ELSE IF segment[i] \in TokenMarks
         THEN <<<<segment[i]>>>> \o TokensFrom(segment, i + 1)
         ELSE LET j == RunEnd(segment, i, AllChars \ TokenMarks)
              IN  <<SubSeq(segment, i, j - 1)>> \o TokensFrom(segment, j)

RECURSIVE TokensOf(_)
TokensOf(segments) ==
    IF segments = <<>> THEN <<>>
    ELSE TokensFrom(Head(segments), 1) \o TokensOf(Tail(segments))

\* word_tokenize(sentence), for sentences of letters, "-", whitespace and the
\* marks ! ? ;
word_tokenize(sentence) == TokensOf(Split(sentence))

\* the marks of the class [?.!,:;"] of the re.sub in paraphrase_sentence
SubMarks == {"?", ".", "!", ",", ";"}

\* re.sub(r'\s([?.!,:;"](?:\s|$))', r'\1', s), scanning from index i: a match
\* is a whitespace, a mark and a whitespace or the end; it keeps the mark and
\* the whitespace after it, and the scan goes on after the match
RECURSIVE SubFrom(_, _)
SubFrom(s, i) ==
    IF i > Len(s) THEN <<>>
    ELSE IF /\ IsSpace(s[i])
            /\ i + 1 <= Len(s)
            /\ s[i + 1] \in SubMarks
            /\ (i + 2 > Len(s) \/ IsSpace(s[i + 2]))
         THEN SubSeq(s, i + 1, IF i + 2 > Len(s) THEN i + 1 ELSE i + 2)
              \o SubFrom(s, i + 3)
         ELSE <<s[i]>> \o SubFrom(s, i + 1)

RemoveSpaceBeforePunct(s) == SubFrom(s, 1)

\* every str paraphrase_sentence(sentence) can return, over the tags pos_tag
\* may give and the draws of random.choice
paraphrase_sentence(sentence) ==
    LET ws == word_tokenize(sentence)
    IN  {RemoveSpaceBeforePunct(Join(pw)) :
            pw \in UNION {ParaphrasedWordsSet(ws, tags) :
                            tags \in [1..Len(ws) -> PosTags]}}

---------------------------------------------------------------------------
(* Tk text widgets.  A widget's contents are its characters without the    *)
(* newline Tk keeps at the end of every text widget; an index is the       *)
(* number of characters before it.                                         *)

\* no "sel" tag range: indexing tk.SEL_FIRST raises TclError
NoSel == <<>>

\* widget.get("1.0", tk.END): the contents and the final newline
GetAll(contents) == contents \o <<"\n">>

\* widget.get(i, j) on the characters GetAll returns
Get(contents, i, j) == SubSeq(GetAll(contents), i + 1, j)

\* "index wordstart" and "index wordend" of Tk: the word holding the character
\* at index i is the run of word characters around it, or that one character
RECURSIVE WordStart(_, _)
WordStart(contents, i) ==
    IF i > 0 /\ IsWordChar(contents[i + 1]) /\ IsWordChar(contents[i])
    THEN WordStart(contents, i - 1)
    ELSE i

WordEnd(contents, i) ==
    IF IsWordChar(contents[i + 1])
    THEN RunEnd(contents, i + 1, WordChars) - 1
    ELSE i + 1

\* widget.delete(i, j) then widget.insert(i, text)
Replace(contents, i, j, text) ==
    SubSeq(contents, 1, i) \o text \o SubSeq(contents, j + 1, Len(contents))

\* the "changed" tag after the same delete and insert: text inserted without
\* a tag list carries a tag only when the characters on both sides carry it
ReplaceTags(tags, i, j, text) ==
    LET both == i >= 1 /\ j + 1 <= Len(tags) /\ tags[i] /\ tags[j + 1]
    IN  SubSeq(tags, 1, i) \o [k \in 1..Len(text) |-> both]
        \o SubSeq(tags, j + 1, Len(tags))

Untagged(text) == [k \in 1..Len(text) |-> FALSE]

Min(a, b) == IF a < b THEN a ELSE b

\* what a callback leaves in lastOp
Ran(op, outcome) == [op |-> op, outcome |-> outcome]

---------------------------------------------------------------------------
(* The callbacks.                                                          *)

\* the callbacks of Spec leave the locals of SpecParaphrase alone
LocalsUnchanged == UNCHANGED <<spell, wordnet, words, pos_tags, paraphrased_words>>

\* update_output (the 'Correct Text' button)
update_output ==
    LET corrected_text == correct_spelling(original_text_widget)
    IN  /\ IF corrected_text.raised
           THEN /\ lastOp' = Ran("update_output", "error")
                /\ UNCHANGED <<corrected_text_widget, sel>>
           ELSE /\ lastOp' = Ran("update_output", "ok")
                /\ corrected_text_widget' = corrected_text.value
                \* the deleted characters lose the sel tag; the final newline,
                \* which delete leaves, keeps it
                /\ sel' = IF sel # NoSel /\ sel[2] = Len(corrected_text_widget) + 1
                          THEN <<Len(corrected_text.value), Len(corrected_text.value) + 1>>
                          ELSE NoSel
        /\ UNCHANGED <<original_text_widget, paraphrase_text_widget, paraphrase_changed,
                       synonym_listbox, spelling_listbox>>
        /\ LocalsUnchanged

\* the loop of update_paraphrase over zip(words_original, words_paraphrased,
\* words_corrected), from position i: each word and a space, tagged "changed"
\* when para != corr
RECURSIVE InsertedFrom(_, _, _, _)
InsertedFrom(words_original, words_paraphrased, words_corrected, i) ==
    IF i > Min(Len(words_original), Min(Len(words_paraphrased), Len(words_corrected)))
    THEN [text |-> <<>>, tags |-> <<>>]
    ELSE LET para == words_paraphrased[i]
             corr == words_corrected[i]
             rest == InsertedFrom(words_original, words_paraphrased, words_corrected, i + 1)
         IN  [text |-> para \o <<" ">> \o rest.text,
              tags |-> [k \in 1..Len(para) + 1 |-> para # corr] \o rest.tags]

\* the three parts update_paraphrase cuts the corrected widget into
BeforeSelected == Get(corrected_text_widget, 0, sel[1])
SelectedText == Get(corrected_text_widget, sel[1], sel[2])
AfterSelected == Get(corrected_text_widget, sel[2], Len(corrected_text_widget) + 1)

\* a return that comes after the paraphrase widget was emptied
ParaphraseAbortedMutant ==
    /\ paraphrase_text_widget' = <<>>
    /\ paraphrase_changed' = <<>>

\* the return of update_paraphrase on TclError: nothing was written yet
ParaphraseAborted ==
    /\ paraphrase_text_widget' = paraphrase_text_widget
    /\ paraphrase_changed' = paraphrase_changed

\* update_paraphrase (the 'Paraphrase' button)
update_paraphrase ==
    /\ IF sel = NoSel
       THEN /\ lastOp' = Ran("update_paraphrase", "noop")
            /\ ParaphraseAborted
       ELSE IF paraphrase_sentence(SelectedText) = {}
       THEN /\ lastOp' = Ran("update_paraphrase", "error")
            /\ UNCHANGED <<paraphrase_text_widget, paraphrase_changed>>
       ELSE \E paraphrased \in paraphrase_sentence(SelectedText) :
            LET corrected == correct_spelling(SelectedText)
                inserted == InsertedFrom(Split(SelectedText), Split(paraphrased),
                                         Split(corrected.value), 1)
            IN  IF corrected.raised
                THEN /\ lastOp' = Ran("update_paraphrase", "error")
                     /\ paraphrase_text_widget' = BeforeSelected
                     /\ paraphrase_changed' = Untagged(BeforeSelected)
                ELSE /\ lastOp' = Ran("update_paraphrase", "ok")
                     /\ paraphrase_text_widget' =
                            BeforeSelected \o inserted.text \o AfterSelected
                     /\ paraphrase_changed' =
                            Untagged(BeforeSelected) \o inserted.tags
                            \o Untagged(AfterSelected)
    /\ UNCHANGED <<original_text_widget, corrected_text_widget, synonym_listbox,
                   spelling_listbox, sel>>
    /\ LocalsUnchanged

\* spell.candidates(word): the candidates the correction is drawn from, or
\* None when there is no correction
Candidates(word) ==
    IF Correction(word) = NoCorrection THEN {} ELSE {Correction(word)}

\* get_synonyms_and_spellings on a widget's contents with the insert cursor on
\* the character at index cursor; iterating over None raises TypeError after
\* the synonyms are listed
get_synonyms_and_spellings(contents, cursor) ==
    LET word == Get(contents, WordStart(contents, cursor), WordEnd(contents, cursor))
    IN  /\ synonym_listbox' = LemmaNames(word, "")
        /\ spelling_listbox' = Candidates(word)
        /\ lastOp' = Ran("get_synonyms_and_spellings",
                         IF Correction(word) = NoCorrection THEN "error" ELSE "ok")
        /\ UNCHANGED <<original_text_widget, corrected_text_widget,
                       paraphrase_text_widget, paraphrase_changed, sel>>
        /\ LocalsUnchanged

\* <Button-3> on the corrected widget
lookup_corrected ==
    \E cursor \in 0..Len(corrected_text_widget) - 1 :
        get_synonyms_and_spellings(corrected_text_widget, cursor)

\* <Button-3> on the paraphrase widget
lookup_paraphrase ==
    \E cursor \in 0..Len(paraphrase_text_widget) - 1 :
        get_synonyms_and_spellings(paraphrase_text_widget, cursor)

\* replace_with_choice with nothing selected in the listbox
replace_nothing ==
    /\ lastOp' = Ran("replace_with_choice", "noop")
    /\ UNCHANGED <<original_text_widget, corrected_text_widget, paraphrase_text_widget,
                   paraphrase_changed, synonym_listbox, spelling_listbox, sel>>
    /\ LocalsUnchanged

\* replace_with_choice on the corrected widget: the listbox entry the user
\* selected took the selection from the text widget
replace_corrected(listbox) ==
    /\ Len(corrected_text_widget) > 0
    /\ \E selected_choice \in listbox, cursor \in 0..Len(corrected_text_widget) - 1 :
          corrected_text_widget' =
              Replace(corrected_text_widget, WordStart(corrected_text_widget, cursor),
                      WordEnd(corrected_text_widget, cursor), selected_choice)
    /\ sel' = NoSel
    /\ lastOp' = Ran("replace_with_choice", "ok")
    /\ UNCHANGED <<original_text_widget, paraphrase_text_widget, paraphrase_changed,
                   synonym_listbox, spelling_listbox>>
    /\ LocalsUnchanged

\* replace_with_choice on the paraphrase widget
replace_paraphrase(listbox) ==
    /\ Len(paraphrase_text_widget) > 0
    /\ \E selected_choice \in listbox, cursor \in 0..Len(paraphrase_text_widget) - 1 :
          LET word_start == WordStart(paraphrase_text_widget, cursor)
              word_end == WordEnd(paraphrase_text_widget, cursor)
          IN  /\ paraphrase_text_widget' =
                     Replace(paraphrase_text_widget, word_start, word_end, selected_choice)
              /\ paraphrase_changed' =
                     ReplaceTags(paraphrase_changed, word_start, word_end, selected_choice)
    /\ sel' = NoSel
    /\ lastOp' = Ran("replace_with_choice", "ok")
    /\ UNCHANGED <<original_text_widget, corrected_text_widget, synonym_listbox,
                   spelling_listbox>>
    /\ LocalsUnchanged

\* apply_blue_highlight on the corrected widget (the 'Select All' button): the
\* sel tag from "1.0" to tk.END, the final newline included
apply_blue_highlight ==
    /\ sel' = <<0, Len(corrected_text_widget) + 1>>
    /\ lastOp' = Ran("apply_blue_highlight", "ok")
    /\ UNCHANGED <<original_text_widget, corrected_text_widget, paraphrase_text_widget,
                   paraphrase_changed, synonym_listbox, spelling_listbox>>
    /\ LocalsUnchanged

\* a reset that forgets the 'Alternative Spellings' listbox
clear_allMutant ==
    /\ original_text_widget' = <<>>
    /\ corrected_text_widget' = <<>>
    /\ paraphrase_text_widget' = <<>>
    /\ paraphrase_changed' = <<>>
    /\ synonym_listbox' = {}
    /\ spelling_listbox' = spelling_listbox
    /\ sel' = IF sel # NoSel /\ sel[2] = Len(corrected_text_widget) + 1
              THEN <<0, 1>> ELSE NoSel
    /\ lastOp' = [op |-> "clear_all", outcome |-> "ok"]
    /\ UNCHANGED <<spell, wordnet, words, pos_tags, paraphrased_words>>

\* clear_all (the 'Reset' button)
clear_all ==
    /\ original_text_widget' = <<>>
    /\ corrected_text_widget' = <<>>
    /\ paraphrase_text_widget' = <<>>
    /\ paraphrase_changed' = <<>>
    /\ synonym_listbox' = {}
    /\ spelling_listbox' = {}
    /\ sel' = IF sel # NoSel /\ sel[2] = Len(corrected_text_widget) + 1
              THEN <<0, 1>> ELSE NoSel
    /\ lastOp' = Ran("clear_all", "ok")
    /\ LocalsUnchanged

\* the 'Clear' button of the original widget
clear_original ==
    /\ original_text_widget' = <<>>
    /\ lastOp' = Ran("clear_original", "ok")
    /\ UNCHANGED <<corrected_text_widget, paraphrase_text_widget, paraphrase_changed,
                   synonym_listbox, spelling_listbox, sel>>
    /\ LocalsUnchanged

---------------------------------------------------------------------------
(* The user.                                                               *)

\* every str of at most n characters of alphabet
Texts(alphabet, n) == UNION {[1..k -> alphabet] : k \in 0..n}

\* the characters the user types in Spec
TypedChars == {"a", "!", " "}

\* the user types one character at the end of the original widget (Tk's own
\* key binding)
type_original ==
    /\ Len(original_text_widget) < MaxTyped
    /\ \E key \in TypedChars : original_text_widget' = Append(original_text_widget, key)
    /\ lastOp' = Ran("type_original", "ok")
    /\ UNCHANGED <<corrected_text_widget, paraphrase_text_widget, paraphrase_changed,
                   synonym_listbox, spelling_listbox, sel>>
    /\ LocalsUnchanged

\* the 'Paste' button: the clipboard goes in at "1.0"
paste_original ==
    /\ \E clipboard \in Texts(TypedChars, MaxTyped) :
          /\ Len(clipboard) + Len(original_text_widget) <= MaxTyped
          /\ original_text_widget' = clipboard \o original_text_widget
    /\ lastOp' = Ran("paste_original", "ok")
    /\ UNCHANGED <<corrected_text_widget, paraphrase_text_widget, paraphrase_changed,
                   synonym_listbox, spelling_listbox, sel>>
    /\ LocalsUnchanged

\* the user drags over a span of the corrected widget
select_span ==
    /\ \E first \in 0..Len(corrected_text_widget), last \in 0..Len(corrected_text_widget) :
          /\ first < last
          /\ sel' = <<first, last>>
    /\ lastOp' = Ran("select_span", "ok")
    /\ UNCHANGED <<original_text_widget, corrected_text_widget, paraphrase_text_widget,
                   paraphrase_changed, synonym_listbox, spelling_listbox>>
    /\ LocalsUnchanged

\* the user clicks into the corrected widget, which drops the selection
click_corrected ==
    /\ sel' = NoSel
    /\ lastOp' = Ran("click_corrected", "ok")
    /\ UNCHANGED <<original_text_widget, corrected_text_widget, paraphrase_text_widget,
                   paraphrase_changed, synonym_listbox, spelling_listbox>>
    /\ LocalsUnchanged

---------------------------------------------------------------------------
(* Spec: the application.                                                  *)

\* the engine of Spec: it knows a, b and none, in any case, and takes aa and
\* e for misspellings of a; it has no correction for any other word
GuiEngine ==
    [word \in {<<"a">>, <<"b">>, <<"a", "a">>, <<"e">>, <<"n", "o", "n", "e">>,
               <<"N", "o", "n", "e">>} |->
        IF word \in {<<"a", "a">>, <<"e">>} THEN <<"a">> ELSE Lower(word)]

\* the synsets the lexical databases of the model are made of
AdjectivePair == [pos |-> "a", lemmas |-> {<<"a">>, <<"b">>}]
AdjectiveAlone == [pos |-> "a", lemmas |-> {<<"e">>}]
NounPair == [pos |-> "n", lemmas |-> {<<"a">>, <<"e">>}]

Lexicons == SUBSET {AdjectivePair, AdjectiveAlone, NounPair}

WidgetsEmpty ==
    /\ original_text_widget = <<>>
    /\ corrected_text_widget = <<>>
    /\ paraphrase_text_widget = <<>>
    /\ paraphrase_changed = <<>>
    /\ synonym_listbox = {}
    /\ spelling_listbox = {}
    /\ sel = NoSel

LocalsEmpty ==
    /\ words = <<>>
    /\ pos_tags = <<>>
    /\ paraphrased_words = <<>>

\* the state root.mainloop() starts in
Init ==
    /\ WidgetsEmpty
    /\ LocalsEmpty
    /\ spell = GuiEngine
    /\ wordnet = {AdjectivePair, NounPair}
    /\ lastOp = Ran("init", "ok")
    /\ steps = 0

\* root.mainloop() dispatches one event: its callback runs to completion
Dispatch(callback) ==
    /\ steps < MaxSteps
    /\ steps' = steps + 1
    /\ callback

Next ==
    \/ Dispatch(type_original)
    \/ Dispatch(paste_original)
    \/ Dispatch(clear_original)
    \/ Dispatch(update_output)
    \/ Dispatch(select_span)
    \/ Dispatch(click_corrected)
    \/ Dispatch(apply_blue_highlight)
    \/ Dispatch(update_paraphrase)
    \/ Dispatch(lookup_corrected)
    \/ Dispatch(lookup_paraphrase)
    \/ Dispatch(replace_nothing)
    \/ Dispatch(replace_corrected(synonym_listbox))
    \/ Dispatch(replace_corrected(spelling_listbox))
    \/ Dispatch(replace_paraphrase(synonym_listbox))
    \/ Dispatch(replace_paraphrase(spelling_listbox))
    \/ Dispatch(clear_all)

Spec == Init /\ [][Next]_vars

---------------------------------------------------------------------------
(* SpecCorrect: correct_spelling on every short text, with every engine.   *)

\* the characters of the texts of SpecCorrect
CorrectChars == {"a", "B", "!", ".", "-", " "}

\* the words correct_spelling asks the engine about
WordsIn(text) == {WordsWithPunct(text)[i].word : i \in 1..Len(WordsWithPunct(text))}

\* what an engine may answer for a word: nothing, the word, or a word it knows
Answers(word) == {NoCorrection, word, <<"a">>, <<"a", "b">>}

Engines(text) ==
    {engine \in [WordsIn(text) -> UNION {Answers(w) : w \in WordsIn(text)}] :
        \A w \in WordsIn(text) : engine[w] \in Answers(w)}

InitCorrect ==
    /\ original_text_widget \in Texts(CorrectChars, MaxLen)
    /\ spell \in Engines(original_text_widget)
    /\ corrected_text_widget = <<>>
    /\ paraphrase_text_widget = <<>>
    /\ paraphrase_changed = <<>>
    /\ synonym_listbox = {}
    /\ spelling_listbox = {}
    /\ sel = NoSel
    /\ LocalsEmpty
    /\ wordnet = {}
    /\ lastOp = Ran("init", "ok")
    /\ steps = 0

NextCorrect == update_output /\ UNCHANGED steps

SpecCorrect == InitCorrect /\ [][NextCorrect]_vars

---------------------------------------------------------------------------
(* SpecParaphrase: the loop of paraphrase_sentence on every short sentence *)
(* of tokens, with every tagging and every lexical database.               *)

\* the tokens of the sentences of SpecParaphrase
Vocabulary == {<<"a">>, <<"A">>, <<"e">>, <<"!">>}

\* the loop of paraphrase_sentence over pos_tags
paraphrase_loop ==
    /\ IF ParaphrasedWordsSet(words, pos_tags) = {}
       THEN /\ paraphrased_words' = <<>>
            /\ lastOp' = Ran("paraphrase_sentence", "error")
       ELSE /\ paraphrased_words' \in ParaphrasedWordsSet(words, pos_tags)
            /\ lastOp' = Ran("paraphrase_sentence", "ok")
    /\ UNCHANGED <<original_text_widget, corrected_text_widget, paraphrase_text_widget,
                   paraphrase_changed, synonym_listbox, spelling_listbox, sel, spell,
                   wordnet, words, pos_tags, steps>>

InitParaphrase ==
    /\ WidgetsEmpty
    /\ words \in UNION {[1..k -> Vocabulary] : k \in 0..MaxTokens}
    /\ pos_tags \in [1..Len(words) -> PosTags]
    /\ paraphrased_words = <<>>
    /\ wordnet \in Lexicons
    /\ spell = GuiEngine
    /\ lastOp = Ran("init", "ok")
    /\ steps = 0

NextParaphrase == paraphrase_loop

SpecParaphrase == InitParaphrase /\ [][NextParaphrase]_vars

---------------------------------------------------------------------------
(* Properties of correct_spelling, stated on the step update_output takes  *)
(* from the original widget to the corrected widget (SpecCorrect).         *)

Corrected == lastOp.op = "update_output"
CorrectionRaised == lastOp = Ran("update_output", "error")

\* the tokens correct_spelling emitted
EmittedTokens == Split(corrected_text_widget)

\* one token per triple was emitted
AllEmitted ==
    /\ ~CorrectionRaised
    /\ Len(EmittedTokens) = Len(WordsWithPunct(original_text_widget))

\* the index of the first character of the run of class that ends token
RECURSIVE RunStart(_, _, _)
RunStart(s, i, class) ==
    IF i < 1 \/ s[i] \notin class THEN i + 1 ELSE RunStart(s, i - 1, class)

LeadingPunct(token) == SubSeq(token, 1, RunEnd(token, 1, PunctChars) - 1)
TrailingPunct(token) == SubSeq(token, RunStart(token, Len(token), PunctChars), Len(token))

\* the segment is one (prefix, word, suffix) and nothing else
Decomposes(segment) ==
    /\ Len(FindAll(segment)) = 1
    /\ LET m == FindAll(segment)[1]
       IN  segment = m.pre_punct \o m.word \o m.post_punct

\* C1: a word the engine has no correction for comes out as the word itself,
\* with its punctuation, and correct_spelling raises nothing.
C1_UnknownWordKept ==
    Corrected =>
        LET ms == WordsWithPunct(original_text_widget)
        IN  \A i \in 1..Len(ms) :
                Correction(ms[i].word) = NoCorrection =>
                    /\ AllEmitted
                    /\ EmittedTokens[i] = ms[i].pre_punct \o ms[i].word \o ms[i].post_punct

\* C2: the token emitted for a segment that is one (prefix, word, suffix)
\* starts with exactly that prefix and ends with exactly that suffix,
\* whatever the engine answers for the word.
C2_PunctuationPreserved ==
    Corrected =>
        LET segments == Split(original_text_widget)
        IN  \A k \in 1..Len(segments) :
                Decomposes(segments[k]) =>
                    LET m == FindAll(segments[k])[1]
                        i == Len(MatchesOf(SubSeq(segments, 1, k - 1))) + 1
                    IN  /\ AllEmitted
                        /\ LeadingPunct(EmittedTokens[i]) = m.pre_punct
                        /\ TrailingPunct(EmittedTokens[i]) = m.post_punct

\* C3: a word that starts with an upper-case character comes out starting
\* with an upper-case character, whatever the engine answers for it.
C3_CapitalKept ==
    Corrected =>
        LET ms == WordsWithPunct(original_text_widget)
        IN  \A i \in 1..Len(ms) :
                IsUpper(ms[i].word[1]) =>
                    /\ AllEmitted
                    /\ Len(EmittedTokens[i]) > Len(ms[i].pre_punct)
                    /\ IsUpper(EmittedTokens[i][Len(ms[i].pre_punct) + 1])

\* C4: with an engine that answers every word with the word itself, a text
\* whose segments are each one (prefix, word, suffix) comes out as itself with
\* every whitespace run collapsed to one space and the ends stripped.
C4_RoundTrip ==
    (/\ Corrected
     /\ \A k \in 1..Len(Split(original_text_widget)) :
            Decomposes(Split(original_text_widget)[k])
     /\ \A w \in WordsIn(original_text_widget) : Correction(w) = w)
    => /\ ~CorrectionRaised
       /\ corrected_text_widget = Join(Split(original_text_widget))

---------------------------------------------------------------------------
(* Properties of the loop of paraphrase_sentence (SpecParaphrase).         *)

Paraphrased == lastOp = Ran("paraphrase_sentence", "ok")

\* C5: the loop keeps the number and order of the tokens, and every token
\* whose tag is not 'JJ' is appended as it is.
C5_NonAdjectivesKept ==
    Paraphrased =>
        /\ Len(paraphrased_words) = Len(words)
        /\ \A i \in 1..Len(words) :
               pos_tags[i] # "JJ" => paraphrased_words[i] = words[i]

\* a token tagged other than 'JJ' that has adjective synonyms is kept, next
\* to an adjective that is replaced
C5_Witness ==
    /\ Paraphrased
    /\ \E i \in 1..Len(words) :
          /\ pos_tags[i] # "JJ"
          /\ LemmaNames(words[i], "a") \ {words[i]} # {}
    /\ \E j \in 1..Len(words) : paraphrased_words[j] # words[j]

\* C6: the loop never raises (random.choice never draws from an empty list);
\* a replaced adjective is one of the adjective lemma names looked up for it
\* other than the word itself, and an adjective with no such lemma name is
\* kept.
C6_ReplacementIsSynonym ==
    lastOp.op = "paraphrase_sentence" =>
        /\ lastOp.outcome = "ok"
        /\ Len(paraphrased_words) = Len(words)
        /\ \A i \in 1..Len(words) :
               pos_tags[i] = "JJ" =>
                   LET candidates == LemmaNames(words[i], "a") \ {words[i]}
                   IN  /\ paraphrased_words[i] # words[i] =>
                              paraphrased_words[i] \in candidates
                       /\ candidates = {} => paraphrased_words[i] = words[i]

\* one adjective is replaced, and another, whose only lemma name is itself,
\* is kept
C6_Witness ==
    /\ Paraphrased
    /\ \E i \in 1..Len(words) :
          /\ pos_tags[i] = "JJ"
          /\ paraphrased_words[i] # words[i]
    /\ \E j \in 1..Len(words) :
          /\ pos_tags[j] = "JJ"
          /\ LemmaNames(words[j], "a") = {words[j]}
          /\ paraphrased_words[j] = words[j]

---------------------------------------------------------------------------
(* Properties of the callbacks (Spec).                                     *)

\* C7: a 'Paraphrase' event with nothing selected in the corrected widget
\* changes none of the three text widgets and neither listbox, and raises
\* nothing.
C7_ParaphraseWithoutSelection ==
    [][(sel = NoSel /\ lastOp'.op = "update_paraphrase") =>
          /\ lastOp'.outcome = "noop"
          /\ UNCHANGED <<original_text_widget, corrected_text_widget,
                         paraphrase_text_widget, paraphrase_changed,
                         synonym_listbox, spelling_listbox, sel>>]_vars

\* 'Paraphrase' returned early while the paraphrase widget held a text
C7_Witness ==
    /\ lastOp = Ran("update_paraphrase", "noop")
    /\ sel = NoSel
    /\ paraphrase_text_widget # <<>>
    /\ \E k \in 1..Len(paraphrase_changed) : paraphrase_changed[k]

\* C8: after 'Reset' the three text widgets and the two listboxes are empty.
C8_ResetEmptiesAll ==
    lastOp.op = "clear_all" =>
        /\ original_text_widget = <<>>
        /\ corrected_text_widget = <<>>
        /\ paraphrase_text_widget = <<>>
        /\ synonym_listbox = {}
        /\ spelling_listbox = {}

\* 'Reset' was the last of MaxSteps events
C8_Witness ==
    /\ lastOp.op = "clear_all"
    /\ steps = MaxSteps

\* a text without the newline that ends it, if it ends with one
StripNewline(text) ==
    IF text # <<>> /\ text[Len(text)] = "\n" THEN SubSeq(text, 1, Len(text) - 1) ELSE text

\* C9: after 'Paraphrase' with a selection, the paraphrase widget holds the
\* text before the selection, the paraphrased selection and the text after
\* the selection, with nothing between the three parts.
C9_ThreeParts ==
    (lastOp.op = "update_paraphrase" /\ sel # NoSel) =>
        \E paraphrased \in paraphrase_sentence(SelectedText) :
            \E middle \in {paraphrased, Join(Split(paraphrased))} :
                \E after \in {AfterSelected, StripNewline(AfterSelected)} :
                    paraphrase_text_widget = BeforeSelected \o middle \o after

\* the words 'Paraphrase' wrote between the two outer parts
InsertedWords ==
    Split(SubSeq(paraphrase_text_widget, Len(BeforeSelected) + 1,
                 Len(paraphrase_text_widget) - Len(AfterSelected)))

\* the index in the paraphrase widget of the first character of the i-th of
\* these words, each of which is followed by one space
RECURSIVE InsertedAt(_)
InsertedAt(i) ==
    IF i = 1 THEN Len(BeforeSelected) + 1
    ELSE InsertedAt(i - 1) + Len(InsertedWords[i - 1]) + 1

\* C10: a word 'Paraphrase' wrote carries the "changed" tag exactly when it
\* differs from the word at the same position of the selected text.
C10_ChangedMark ==
    lastOp = Ran("update_paraphrase", "ok") =>
        \A i \in 1..Len(InsertedWords) :
            paraphrase_changed[InsertedAt(i)] <=> InsertedWords[i] # Split(SelectedText)[i]

===========================================================================
